---- MODULE Spec2Model ----
(***************************************************************************)
(* A model of the simpleforce REST client (HTTPClient and its operations)  *)
(* and of the generic record (SObject) the operations act on.              *)
(*                                                                         *)
(* A string that takes part in URL handling is a sequence of tokens: a     *)
(* token is either one character that URL escaping or parsing treats       *)
(* specially (" ", "+", "&", "=", "?", "/", "%") or an opaque run of       *)
(* ordinary characters ("Case", "v43.0", "sobjects/").  Plain identifiers  *)
(* that never pass through escaping (type names, ids, header values) are   *)
(* TLA+ strings.                                                           *)
(***************************************************************************)
EXTENDS Integers, Sequences, FiniteSets, TLC

VARIABLES h, sobj, pc, op, pre, net, wire, rret, ret

VARIABLES fc, fc0, gpc, gtmp, gres, wrote

clientVars == <<h, sobj, pc, op, pre, net, wire, rret, ret>>

forceVars == <<fc, fc0, gpc, gtmp, gres, wrote>>

vars == <<h, sobj, pc, op, pre, net, wire, rret, ret, fc, fc0, gpc, gtmp, gres, wrote>>

(***************************************************************************)
(* Bounds of the model.                                                    *)
(***************************************************************************)
\* longest SOQL string handed to Query, in tokens
MaxQueryLen == 2

\* tokens a SOQL string is built from
QueryChars == {"Id", " ", "+", "&"}

Queries == UNION {[1..k -> QueryChars] : k \in 0..MaxQueryLen}

\* continuation tokens handed to Query: none, or a server-supplied path
NextRecordsURLs == {<<>>, <<"/", "foo", "/", "bar">>}

TypeNames == {"", "Case"}

IDs == {"", "object1"}

FieldNames == {"Foo", "IsClosed"}

ContentVersionIDs == {<<"068x">>, <<"%">>}

(***************************************************************************)
(* Go values held in a record's field bag, and JSON values on the wire.    *)
(***************************************************************************)
GoString(s) == [k |-> "string", v |-> s]

GoBool(b) == [k |-> "bool", v |-> IF b THEN "true" ELSE "false"]

GoAttributes(t) == [k |-> "attributes", v |-> t]

JString(s) == [t |-> "string", s |-> s]

JTrue == [t |-> "true", s |-> ""]

JFalse == [t |-> "false", s |-> ""]

JNull == [t |-> "null", s |-> ""]

JAttributes(t) == [t |-> "object", s |-> t]

\* json.Marshal of one field value
marshalValue(g) ==
    CASE g.k = "string" -> JString(g.v)
      [] g.k = "bool" -> IF g.v = "true" THEN JTrue ELSE JFalse
      [] g.k = "attributes" -> JAttributes(g.v)
      [] OTHER -> JNull

\* json.Unmarshal of one JSON value into an interface{} field
unmarshalValue(j) ==
    CASE j.t = "string" -> GoString(j.s)
      [] j.t = "true" -> GoBool(TRUE)
      [] j.t = "false" -> GoBool(FALSE)
      [] j.t = "object" -> GoAttributes(j.s)
      [] OTHER -> [k |-> "nil", v |-> ""]

\* json.Marshal of a string-keyed map: a JSON object
Marshal(m) == [k \in DOMAIN m |-> marshalValue(m[k])]

EmptyObject == [k \in {} |-> JNull]

(***************************************************************************)
(* The generic record (SObject).                                           *)
(***************************************************************************)
NewSObject(t) == [type |-> t, id |-> "", fields |-> [k \in {} |-> GoString("")]]

Type(s) == s.type

ID(s) == s.id

SetID(s, id) == [s EXCEPT !.id = id]

Set(s, key, value) ==
    [s EXCEPT !.fields = [k \in DOMAIN s.fields \cup {key} |->
                            IF k = key THEN value ELSE s.fields[k]]]

\* the flat key/value view of a record: type and id metadata under their
\* reserved keys, merged with the user fields
Flat(s) ==
    LET ks == (IF s.type # "" THEN {"attributes"} ELSE {})
                \cup (IF s.id # "" THEN {"Id"} ELSE {})
                \cup DOMAIN s.fields
    IN [k \in ks |-> CASE k = "attributes" -> GoAttributes(s.type)
                       [] k = "Id" -> GoString(s.id)
                       [] OTHER -> s.fields[k]]

\* redacted copy: every key of the flat view but the excluded ones; the
\* receiver is not changed
makeCopy(s, blacklistedFields) ==
    LET f == Flat(s)
    IN [k \in DOMAIN f \ blacklistedFields |-> f[k]]

(***************************************************************************)
(* URLs: building them in the client, reading them in the server.          *)
(***************************************************************************)
DefaultAPIVersion == <<"v43.0">>

\* strings.TrimSuffix(baseURL, "/")
TrimSuffix(s) ==
    IF s # <<>> /\ s[Len(s)] = "/" THEN SubSeq(s, 1, Len(s) - 1) ELSE s

NewHTTPClient(baseURL, apiVersion) ==
    [baseURL |-> TrimSuffix(baseURL), apiVersion |-> apiVersion]

makeURL(url) ==
    h.baseURL \o <<"/services/data/">> \o h.apiVersion \o <<"/">> \o url

\* url.PathEscape of one character: of the special characters only
\* "$&+:=@" pass unescaped in a path segment
escapeChar(c) ==
    CASE c = " " -> <<"%", "20">>
      [] c = "%" -> <<"%", "25">>
      [] c = "?" -> <<"%", "3F">>
      [] c = "/" -> <<"%", "2F">>
      [] OTHER -> <<c>>

RECURSIVE PathEscape(_)
PathEscape(s) ==
    IF s = <<>> THEN <<>> ELSE escapeChar(Head(s)) \o PathEscape(Tail(s))

HexPairs == {"20", "25", "3F", "2F"}

hexByte(x) ==
    CASE x = "20" -> " "
      [] x = "25" -> "%"
      [] x = "3F" -> "?"
      [] x = "2F" -> "/"
      [] OTHER -> x

\* url.Parse, as http.NewRequest runs it: a "%" must start an escape
validURL(u) ==
    \A i \in 1..Len(u) : u[i] = "%" => (i < Len(u) /\ u[i + 1] \in HexPairs)

IndexOf(s, c) ==
    IF \E i \in 1..Len(s) : s[i] = c
    THEN CHOOSE i \in 1..Len(s) : s[i] = c /\ \A j \in 1..(i - 1) : s[j] # c
    ELSE 0

\* url.PathUnescape (plusIsSpace = FALSE) and url.QueryUnescape (TRUE)
RECURSIVE unescape(_, _)
unescape(s, plusIsSpace) ==
    IF s = <<>> THEN <<>>
    ELSE IF Head(s) = "%" /\ Len(s) >= 2
         THEN <<hexByte(s[2])>> \o unescape(SubSeq(s, 3, Len(s)), plusIsSpace)
    ELSE IF Head(s) = "+" /\ plusIsSpace
         THEN <<" ">> \o unescape(Tail(s), plusIsSpace)
    ELSE <<Head(s)>> \o unescape(Tail(s), plusIsSpace)

RECURSIVE Split(_, _)
Split(s, sep) ==
    LET i == IndexOf(s, sep)
    IN IF i = 0 THEN <<s>>
       ELSE <<SubSeq(s, 1, i - 1)>> \o Split(SubSeq(s, i + 1, Len(s)), sep)

\* the request target the server sees: what follows scheme and host
RequestURI(u) == SubSeq(u, Len(h.baseURL) + 1, Len(u))

\* r.URL.Path
URLPath(u) ==
    LET uri == RequestURI(u)
        i == IndexOf(uri, "?")
    IN unescape(IF i = 0 THEN uri ELSE SubSeq(uri, 1, i - 1), FALSE)

RawQuery(u) ==
    LET uri == RequestURI(u)
        i == IndexOf(uri, "?")
    IN IF i = 0 THEN <<>> ELSE SubSeq(uri, i + 1, Len(uri))

\* r.URL.Query(): the key/value pairs of the raw query, unescaped
URLQuery(u) ==
    LET parts == SelectSeq(Split(RawQuery(u), "&"), LAMBDA p : p # <<>>)
        pair(p) == LET i == IndexOf(p, "=")
                   IN [key |-> unescape(IF i = 0 THEN p ELSE SubSeq(p, 1, i - 1), TRUE),
                       value |-> unescape(IF i = 0 THEN <<>> ELSE SubSeq(p, i + 1, Len(p)), TRUE)]
    IN [n \in 1..Len(parts) |-> pair(parts[n])]

\* r.URL.Query().Has(key)
QueryHas(u, key) == \E n \in 1..Len(URLQuery(u)) : URLQuery(u)[n].key = <<key>>

\* r.URL.Query().Get(key): the first value of the key, or the empty string
QueryGet(u, key) ==
    LET hits == SelectSeq(URLQuery(u), LAMBDA p : p.key = <<key>>)
    IN IF hits = <<>> THEN <<>> ELSE hits[1].value

(***************************************************************************)
(* Headers, bodies, responses.                                             *)
(***************************************************************************)
NoHeaders == [k \in {} |-> ""]

NilHeaders == [isNil |-> TRUE, map |-> NoHeaders]

Headers(m) == [isNil |-> FALSE, map |-> m]

\* http.Header.Get: the value, or "" when the header is absent
HeaderGet(m, key) == IF key \in DOMAIN m THEN m[key] ELSE ""

HeaderSet(m, key, value) ==
    [k \in DOMAIN m \cup {key} |-> IF k = key THEN value ELSE m[k]]

duplicateRuleHeader == "Sforce-Duplicate-Rule-Header"

autoAssignRuleHeader == "Sforce-Auto-Assign"

\* the headers CreateSObject and UpdateSObject pass to request for their
\* flags; autoAssign is "nil", "true" or "false" (a *bool)
ruleHeaders(allowDuplicates, autoAssign) ==
    LET h1 == IF allowDuplicates
              THEN HeaderSet(NoHeaders, duplicateRuleHeader, "allowSave=true")
              ELSE NoHeaders
        h2 == IF autoAssign = "nil" THEN h1
              ELSE HeaderSet(h1, autoAssignRuleHeader,
                             IF autoAssign = "true" THEN "TRUE" ELSE "FALSE")
    IN Headers(h2)

\* a request body: nil, or the marshalled JSON object
NilBody == [isNil |-> TRUE, json |-> EmptyObject]

BytesReader(reqData) == [isNil |-> FALSE, json |-> reqData]

\* the bytes of a response body: nothing, text that is not JSON, the JSON
\* literal null, or a JSON object
EmptyBytes == [kind |-> "empty", obj |-> EmptyObject]

InvalidBytes == [kind |-> "invalid", obj |-> EmptyObject]

NullBytes == [kind |-> "null", obj |-> EmptyObject]

ObjectBytes(o) == [kind |-> "object", obj |-> o]

\* a body stream (io.ReadCloser): its bytes, whether they are still to be
\* read, and whether reading it fails
Stream(data, unread, readErr) == [data |-> data, unread |-> unread, readErr |-> readErr]

\* io.ReadAll
ReadAll(s) ==
    IF s.readErr THEN [bytes |-> EmptyBytes, err |-> "read"]
    ELSE [bytes |-> IF s.unread THEN s.data ELSE EmptyBytes, err |-> "nil"]

NilResponse == [isNil |-> TRUE, StatusCode |-> 0, Body |-> Stream(EmptyBytes, FALSE, FALSE)]

Response(status, body) == [isNil |-> FALSE, StatusCode |-> status, Body |-> body]

(***************************************************************************)
(* What the transport (httpClient.Do) answers to one request.              *)
(***************************************************************************)
StatusOK == 200

StatusMultipleChoices == 300

Statuses == {199, 200, 299, 300}

NoAnswer == [kind |-> "none", status |-> 0, body |-> EmptyBytes, readErr |-> FALSE]

TransportError == [kind |-> "error", status |-> 0, body |-> EmptyBytes, readErr |-> FALSE]

Answer(status, body, readErr) ==
    [kind |-> "response", status |-> status, body |-> body, readErr |-> readErr]

MalformedBodies == {EmptyBytes, InvalidBytes, NullBytes}

\* every answer with one of the bodies, a failed round trip, and an answer
\* whose body cannot be read to its end
Outcomes(bodies) ==
    {TransportError}
        \cup {Answer(s, b, FALSE) : s \in Statuses, b \in bodies}
        \cup {Answer(s, ObjectBytes(EmptyObject), TRUE) : s \in Statuses}

Obj1(k1, v1) == [k \in {k1} |-> v1]

Obj2(k1, v1, k2, v2) == [k \in {k1, k2} |-> IF k = k1 THEN v1 ELSE v2]

\* bodies of create responses: success and id each absent or present
CreateObjects ==
    {EmptyObject, Obj2("Id", JString("X"), "success", JTrue)}
        \cup {Obj1("success", s) : s \in {JTrue, JFalse}}
        \cup {Obj1("id", JString(i)) : i \in {"", "X"}}
        \cup {Obj2("id", JString(i), "success", s) : i \in {"", "X"}, s \in {JTrue, JFalse}}

\* bodies of get responses: type, id and one user field each absent or present
GetObjects ==
    {[k \in ks |-> CASE k = "attributes" -> JAttributes("Lead")
                     [] k = "Id" -> JString("X")
                     [] OTHER -> JString("bar")] : ks \in SUBSET {"attributes", "Id", "Foo"}}

OtherObjects == {EmptyObject, Obj1("done", JTrue)}

BodiesOf(objects) == MalformedBodies \cup {ObjectBytes(o) : o \in objects}

CreateOutcomes == Outcomes(BodiesOf(CreateObjects))

GetOutcomes == Outcomes(BodiesOf(GetObjects))

OtherOutcomes == Outcomes(BodiesOf(OtherObjects))

(***************************************************************************)
(* The shared request routine.                                             *)
(***************************************************************************)
\* the error a non-2xx answer is turned into: the server's structured error
\* when the body carries one, the generic failure marker otherwise
parseSalesforceError(status, body) ==
    IF body.kind = "object" THEN "SalesforceError" ELSE "ErrFailure"

NotCalled == [called |-> FALSE, headers |-> NilHeaders, sent |-> <<>>, res |-> NilResponse, err |-> "nil"]

\* request, sending a header set of its own in place of the caller's
requestOwnHeaders(method, url, body, headers, out) ==
    LET given == NoHeaders
        header == IF HeaderGet(given, "Content-Type") = ""
                  THEN HeaderSet(given, "Content-Type", "application/json")
                  ELSE given
        req == [method |-> method, url |-> url, body |-> body, header |-> header]
        res == Response(out.status, Stream(out.body, TRUE, out.readErr))
        read == ReadAll(res.Body)
    IN IF ~validURL(url)
       THEN [called |-> TRUE, headers |-> headers, sent |-> <<>>, res |-> NilResponse, err |-> "url"]
       ELSE IF out.kind = "error"
       THEN [called |-> TRUE, headers |-> headers, sent |-> <<req>>, res |-> NilResponse, err |-> "transport"]
       ELSE IF res.StatusCode < StatusOK \/ res.StatusCode >= StatusMultipleChoices
       THEN IF read.err # "nil"
            THEN [called |-> TRUE, headers |-> headers, sent |-> <<req>>, res |-> NilResponse, err |-> read.err]
            ELSE [called |-> TRUE, headers |-> headers, sent |-> <<req>>,
                  res |-> [res EXCEPT !.Body = Stream(read.bytes, TRUE, FALSE)],
                  err |-> parseSalesforceError(res.StatusCode, read.bytes)]
       ELSE [called |-> TRUE, headers |-> headers, sent |-> <<req>>, res |-> res, err |-> "nil"]

\* request, returning the body it has read to its end as it is
requestKeepsDrainedBody(method, url, body, headers, out) ==
    LET given == IF headers.isNil THEN NoHeaders ELSE headers.map
        header == IF HeaderGet(given, "Content-Type") = ""
                  THEN HeaderSet(given, "Content-Type", "application/json")
                  ELSE given
        req == [method |-> method, url |-> url, body |-> body, header |-> header]
        res == Response(out.status, Stream(out.body, TRUE, out.readErr))
        read == ReadAll(res.Body)
    IN IF ~validURL(url)
       THEN [called |-> TRUE, headers |-> headers, sent |-> <<>>, res |-> NilResponse, err |-> "url"]
       ELSE IF out.kind = "error"
       THEN [called |-> TRUE, headers |-> headers, sent |-> <<req>>, res |-> NilResponse, err |-> "transport"]
       ELSE IF res.StatusCode < StatusOK \/ res.StatusCode >= StatusMultipleChoices
       THEN IF read.err # "nil"
            THEN [called |-> TRUE, headers |-> headers, sent |-> <<req>>, res |-> NilResponse, err |-> read.err]
            ELSE [called |-> TRUE, headers |-> headers, sent |-> <<req>>,
                  res |-> [res EXCEPT !.Body = Stream(read.bytes, FALSE, FALSE)],
                  err |-> parseSalesforceError(res.StatusCode, read.bytes)]
       ELSE [called |-> TRUE, headers |-> headers, sent |-> <<req>>, res |-> res, err |-> "nil"]

\* request, setting the default content type whatever the caller gave
requestForcesContentType(method, url, body, headers, out) ==
    LET given == IF headers.isNil THEN NoHeaders ELSE headers.map
        header == IF TRUE
                  THEN HeaderSet(given, "Content-Type", "application/json")
                  ELSE given
        req == [method |-> method, url |-> url, body |-> body, header |-> header]
        res == Response(out.status, Stream(out.body, TRUE, out.readErr))
        read == ReadAll(res.Body)
    IN IF ~validURL(url)
       THEN [called |-> TRUE, headers |-> headers, sent |-> <<>>, res |-> NilResponse, err |-> "url"]
       ELSE IF out.kind = "error"
       THEN [called |-> TRUE, headers |-> headers, sent |-> <<req>>, res |-> NilResponse, err |-> "transport"]
       ELSE IF res.StatusCode < StatusOK \/ res.StatusCode >= StatusMultipleChoices
       THEN IF read.err # "nil"
            THEN [called |-> TRUE, headers |-> headers, sent |-> <<req>>, res |-> NilResponse, err |-> read.err]
            ELSE [called |-> TRUE, headers |-> headers, sent |-> <<req>>,
                  res |-> [res EXCEPT !.Body = Stream(read.bytes, TRUE, FALSE)],
                  err |-> parseSalesforceError(res.StatusCode, read.bytes)]
       ELSE [called |-> TRUE, headers |-> headers, sent |-> <<req>>, res |-> res, err |-> "nil"]

\* request, handing the request to the transport again after a failed round trip
requestRetries(method, url, body, headers, out) ==
    LET given == IF headers.isNil THEN NoHeaders ELSE headers.map
        header == IF HeaderGet(given, "Content-Type") = ""
                  THEN HeaderSet(given, "Content-Type", "application/json")
                  ELSE given
        req == [method |-> method, url |-> url, body |-> body, header |-> header]
        res == Response(out.status, Stream(out.body, TRUE, out.readErr))
        read == ReadAll(res.Body)
    IN IF ~validURL(url)
       THEN [called |-> TRUE, headers |-> headers, sent |-> <<>>, res |-> NilResponse, err |-> "url"]
       ELSE IF out.kind = "error"
       THEN [called |-> TRUE, headers |-> headers, sent |-> <<req, req>>, res |-> NilResponse, err |-> "transport"]
       ELSE IF res.StatusCode < StatusOK \/ res.StatusCode >= StatusMultipleChoices
       THEN IF read.err # "nil"
            THEN [called |-> TRUE, headers |-> headers, sent |-> <<req>>, res |-> NilResponse, err |-> read.err]
            ELSE [called |-> TRUE, headers |-> headers, sent |-> <<req>>,
                  res |-> [res EXCEPT !.Body = Stream(read.bytes, TRUE, FALSE)],
                  err |-> parseSalesforceError(res.StatusCode, read.bytes)]
       ELSE [called |-> TRUE, headers |-> headers, sent |-> <<req>>, res |-> res, err |-> "nil"]

\* h.request(method, url, body, headers), the transport answering out: the
\* headers it was given, the requests it handed to the transport, and the
\* response and error it returned
request(method, url, body, headers, out) ==
    LET given == IF headers.isNil THEN NoHeaders ELSE headers.map
        header == IF HeaderGet(given, "Content-Type") = ""
                  THEN HeaderSet(given, "Content-Type", "application/json")
                  ELSE given
        req == [method |-> method, url |-> url, body |-> body, header |-> header]
        res == Response(out.status, Stream(out.body, TRUE, out.readErr))
        read == ReadAll(res.Body)
    IN IF ~validURL(url)
       THEN [called |-> TRUE, headers |-> headers, sent |-> <<>>, res |-> NilResponse, err |-> "url"]
       ELSE IF out.kind = "error"
       THEN [called |-> TRUE, headers |-> headers, sent |-> <<req>>, res |-> NilResponse, err |-> "transport"]
       ELSE IF res.StatusCode < StatusOK \/ res.StatusCode >= StatusMultipleChoices
       THEN IF read.err # "nil"
            THEN [called |-> TRUE, headers |-> headers, sent |-> <<req>>, res |-> NilResponse, err |-> read.err]
            ELSE [called |-> TRUE, headers |-> headers, sent |-> <<req>>,
                  res |-> [res EXCEPT !.Body = Stream(read.bytes, TRUE, FALSE)],
                  err |-> parseSalesforceError(res.StatusCode, read.bytes)]
       ELSE [called |-> TRUE, headers |-> headers, sent |-> <<req>>, res |-> res, err |-> "nil"]

(***************************************************************************)
(* Decoding a response body (json.NewDecoder(res.Body).Decode).            *)
(***************************************************************************)
\* the JSON value read off the stream, or why none could be read
decodeJSON(stream) ==
    LET read == ReadAll(stream)
    IN IF read.err # "nil" THEN [err |-> read.err, bytes |-> EmptyBytes]
       ELSE IF read.bytes.kind \in {"empty", "invalid"}
       THEN [err |-> "decode", bytes |-> EmptyBytes]
       ELSE [err |-> "nil", bytes |-> read.bytes]

\* into a *createSObjectResponse: null leaves the pointer nil; keys match
\* the field tags without regard to case
decodeCreateResponse(stream) ==
    LET d == decodeJSON(stream)
        o == d.bytes.obj
        idKey == IF "id" \in DOMAIN o THEN "id" ELSE "Id"
        idOK == idKey \in DOMAIN o => o[idKey].t \in {"string", "null"}
        successOK == "success" \in DOMAIN o => o["success"].t \in {"true", "false", "null"}
    IN IF d.err # "nil" THEN [err |-> d.err, isNil |-> TRUE, ID |-> "", Success |-> FALSE]
       ELSE IF d.bytes.kind = "null"
       THEN [err |-> "nil", isNil |-> TRUE, ID |-> "", Success |-> FALSE]
       ELSE IF ~idOK \/ ~successOK
       THEN [err |-> "decode", isNil |-> FALSE, ID |-> "", Success |-> FALSE]
       ELSE [err |-> "nil", isNil |-> FALSE,
             ID |-> IF idKey \in DOMAIN o /\ o[idKey].t = "string" THEN o[idKey].s ELSE "",
             Success |-> "success" \in DOMAIN o /\ o["success"].t = "true"]

\* into the record itself: type and id are overwritten when the response
\* carries them, the user fields are replaced by those of the response
decodeSObject(s, stream) ==
    LET d == decodeJSON(stream)
        o == d.bytes.obj
    IN IF d.err # "nil" THEN [err |-> d.err, sobj |-> s]
       ELSE IF d.bytes.kind # "object" THEN [err |-> "decode", sobj |-> s]
       ELSE [err |-> "nil",
             sobj |-> [type |-> IF "attributes" \in DOMAIN o THEN o["attributes"].s ELSE s.type,
                       id |-> IF "Id" \in DOMAIN o THEN o["Id"].s ELSE s.id,
                       fields |-> [k \in DOMAIN o \ {"attributes", "Id"} |->
                                     unmarshalValue(o[k])]]]

\* into a QueryResult struct: null and unknown keys leave the zero value
decodeQueryResult(stream) ==
    LET d == decodeJSON(stream)
        o == d.bytes.obj
        zero == [TotalSize |-> 0, Done |-> FALSE, NextRecordsURL |-> "", Records |-> <<>>]
    IN IF d.err # "nil" THEN [err |-> d.err, val |-> zero]
       ELSE IF "done" \in DOMAIN o /\ o["done"].t \notin {"true", "false", "null"}
       THEN [err |-> "decode", val |-> zero]
       ELSE [err |-> "nil",
             val |-> [zero EXCEPT !.Done = "done" \in DOMAIN o /\ o["done"].t = "true"]]

\* into an SObjectMeta map: every key of the object; null leaves it nil
decodeSObjectMeta(stream) ==
    LET d == decodeJSON(stream)
        o == d.bytes.obj
    IN IF d.err # "nil" THEN [err |-> d.err, val |-> <<>>]
       ELSE [err |-> "nil", val |-> [k \in DOMAIN o |-> unmarshalValue(o[k])]]

(***************************************************************************)
(* The caller: it builds a record, calls one operation, looks at what the  *)
(* call returned, and goes on.                                             *)
(*   op    the call made last and its arguments                            *)
(*   pre   the record as it was when the call was made                     *)
(*   wire  the requests the call handed to the transport                   *)
(*   net   what the transport answered                                     *)
(*   rret  what the request routine returned to the operation              *)
(*   ret   what the operation returned to the caller                       *)
(***************************************************************************)
NoValue == <<>>

NoCall ==
    [name |-> "none", query |-> <<>>, nextRecordsURL |-> <<>>,
     blacklistedFields |-> {}, allowDuplicates |-> FALSE, autoAssign |-> "nil",
     contentVersionID |-> <<>>, createFails |-> FALSE]

Call(name) == [NoCall EXCEPT !.name = name]

Blacklists == {{}, {"attributes", "Id"}, {"Foo"}}

AutoAssigns == {"nil", "true", "false"}

FieldValues(key) == IF key = "Foo" THEN {GoString("bar")} ELSE {GoBool(TRUE)}

InitClient ==
    /\ \E baseURL \in {<<"http://host">>, <<"http://host", "/">>} :
          h = NewHTTPClient(baseURL, DefaultAPIVersion)
    /\ sobj = NewSObject("")
    /\ pc = "idle"
    /\ op = NoCall
    /\ pre = NewSObject("")
    /\ net = NoAnswer
    /\ wire = <<>>
    /\ rret = NotCalled
    /\ ret = [err |-> "nil", val |-> NoValue]

\* the call o returns error e and value v, having run request as r (the
\* transport answering out) and left the record as s
Return(o, r, out, e, v, s) ==
    /\ pc' = "returned"
    /\ op' = o
    /\ pre' = sobj
    /\ wire' = r.sent
    /\ net' = IF r.sent = <<>> THEN NoAnswer ELSE out
    /\ rret' = r
    /\ ret' = [err |-> e, val |-> v]
    /\ sobj' = s
    /\ UNCHANGED h
    /\ UNCHANGED forceVars

CallerNew(t) ==
    /\ pc = "idle"
    /\ sobj' = NewSObject(t)
    /\ UNCHANGED <<h, pc, op, pre, net, wire, rret, ret>>
    /\ UNCHANGED forceVars

CallerSetID(id) ==
    /\ pc = "idle"
    /\ sobj' = SetID(sobj, id)
    /\ UNCHANGED <<h, pc, op, pre, net, wire, rret, ret>>
    /\ UNCHANGED forceVars

CallerSet(key, value) ==
    /\ pc = "idle"
    /\ sobj' = Set(sobj, key, value)
    /\ UNCHANGED <<h, pc, op, pre, net, wire, rret, ret>>
    /\ UNCHANGED forceVars

\* the caller has looked at the result and turns to its next call
Continue ==
    /\ pc = "returned"
    /\ pc' = "idle"
    /\ op' = NoCall
    /\ pre' = NewSObject("")
    /\ net' = NoAnswer
    /\ wire' = <<>>
    /\ rret' = NotCalled
    /\ ret' = [err |-> "nil", val |-> NoValue]
    /\ UNCHANGED <<h, sobj>>
    /\ UNCHANGED forceVars

(***************************************************************************)
(* The operations of the client.                                           *)
(***************************************************************************)
Query(query, nextRecordsURL, out) ==
    LET o == [Call("Query") EXCEPT !.query = query, !.nextRecordsURL = nextRecordsURL]
        path == IF Len(nextRecordsURL) > 0
                THEN nextRecordsURL
                ELSE <<"/services/data/">> \o h.apiVersion
                        \o <<"/query", "?", "q", "=">> \o PathEscape(query)
        url == h.baseURL \o path
        r == request("GET", url, NilBody, NilHeaders, out)
        d == decodeQueryResult(r.res.Body)
    IN /\ pc = "idle"
       /\ IF r.err # "nil" THEN Return(o, r, out, r.err, NoValue, sobj)
          ELSE IF d.err # "nil" THEN Return(o, r, out, d.err, NoValue, sobj)
          ELSE Return(o, r, out, "nil", d.val, sobj)

DescribeSObject(out) ==
    LET o == Call("DescribeSObject")
        url == makeURL(<<"sobjects/", Type(sobj), "/describe">>)
        r == request("GET", url, NilBody, NilHeaders, out)
        d == decodeSObjectMeta(r.res.Body)
    IN /\ pc = "idle"
       /\ IF Type(sobj) = "" THEN Return(o, NotCalled, out, "ErrFailure", NoValue, sobj)
          ELSE IF r.err # "nil" THEN Return(o, r, out, r.err, NoValue, sobj)
          ELSE IF d.err # "nil" THEN Return(o, r, out, d.err, NoValue, sobj)
          ELSE Return(o, r, out, "nil", d.val, sobj)

\* CreateSObject, failing only when both success and id are missing
CreateSObjectEitherSuffices(blacklistedFields, allowDuplicates, autoAssign, out) ==
    LET o == [Call("CreateSObject") EXCEPT !.blacklistedFields = blacklistedFields,
                                           !.allowDuplicates = allowDuplicates,
                                           !.autoAssign = autoAssign]
        reqObj == makeCopy(sobj, blacklistedFields)
        reqData == Marshal(reqObj)
        url == makeURL(<<"sobjects/", Type(sobj), "/">>)
        r == request("POST", url, BytesReader(reqData),
                     ruleHeaders(allowDuplicates, autoAssign), out)
        resData == decodeCreateResponse(r.res.Body)
    IN /\ pc = "idle"
       /\ IF Type(sobj) = "" THEN Return(o, NotCalled, out, "ErrFailure", NoValue, sobj)
          ELSE IF r.err # "nil" THEN Return(o, r, out, r.err, NoValue, sobj)
          ELSE IF resData.err # "nil" THEN Return(o, r, out, resData.err, NoValue, sobj)
          ELSE IF resData.isNil THEN Return(o, r, out, "panic", NoValue, sobj)
          ELSE IF ~resData.Success /\ resData.ID = ""
          THEN Return(o, r, out, "ErrFailure", NoValue, sobj)
          ELSE Return(o, r, out, "nil", NoValue, SetID(sobj, resData.ID))

\* CreateSObject, marshalling the record in place of its redacted copy
CreateSObjectSendsRecord(blacklistedFields, allowDuplicates, autoAssign, out) ==
    LET o == [Call("CreateSObject") EXCEPT !.blacklistedFields = blacklistedFields,
                                           !.allowDuplicates = allowDuplicates,
                                           !.autoAssign = autoAssign]
        reqObj == makeCopy(sobj, blacklistedFields)
        reqData == Marshal(Flat(sobj))
        url == makeURL(<<"sobjects/", Type(sobj), "/">>)
        r == request("POST", url, BytesReader(reqData),
                     ruleHeaders(allowDuplicates, autoAssign), out)
        resData == decodeCreateResponse(r.res.Body)
    IN /\ pc = "idle"
       /\ IF Type(sobj) = "" THEN Return(o, NotCalled, out, "ErrFailure", NoValue, sobj)
          ELSE IF r.err # "nil" THEN Return(o, r, out, r.err, NoValue, sobj)
          ELSE IF resData.err # "nil" THEN Return(o, r, out, resData.err, NoValue, sobj)
          ELSE IF resData.isNil THEN Return(o, r, out, "panic", NoValue, sobj)
          ELSE IF ~resData.Success \/ resData.ID = ""
          THEN Return(o, r, out, "ErrFailure", NoValue, sobj)
          ELSE Return(o, r, out, "nil", NoValue, SetID(sobj, resData.ID))

\* the source's CreateSObject takes no flags and passes no headers; the
\* flags and their headers are those of the signature the tests call
CreateSObject(blacklistedFields, allowDuplicates, autoAssign, out) ==
    LET o == [Call("CreateSObject") EXCEPT !.blacklistedFields = blacklistedFields,
                                           !.allowDuplicates = allowDuplicates,
                                           !.autoAssign = autoAssign]
        reqObj == makeCopy(sobj, blacklistedFields)
        reqData == Marshal(reqObj)
        url == makeURL(<<"sobjects/", Type(sobj), "/">>)
        r == request("POST", url, BytesReader(reqData),
                     ruleHeaders(allowDuplicates, autoAssign), out)
        resData == decodeCreateResponse(r.res.Body)
    IN /\ pc = "idle"
       /\ IF Type(sobj) = "" THEN Return(o, NotCalled, out, "ErrFailure", NoValue, sobj)
          ELSE IF r.err # "nil" THEN Return(o, r, out, r.err, NoValue, sobj)
          ELSE IF resData.err # "nil" THEN Return(o, r, out, resData.err, NoValue, sobj)
          ELSE IF resData.isNil THEN Return(o, r, out, "panic", NoValue, sobj)
          ELSE IF ~resData.Success \/ resData.ID = ""
          THEN Return(o, r, out, "ErrFailure", NoValue, sobj)
          ELSE Return(o, r, out, "nil", NoValue, SetID(sobj, resData.ID))

\* GetSObject, decoding into a record it has emptied first
GetSObjectIntoFresh(out) ==
    LET o == Call("GetSObject")
        url == makeURL(<<"sobjects/", Type(sobj), "/", ID(sobj)>>)
        r == request("GET", url, NilBody, NilHeaders, out)
        d == decodeSObject(NewSObject(""), r.res.Body)
    IN /\ pc = "idle"
       /\ IF Len(Type(sobj)) = 0 THEN Return(o, NotCalled, out, "ErrFailure", NoValue, sobj)
          ELSE IF Len(ID(sobj)) = 0 THEN Return(o, NotCalled, out, "ErrFailure", NoValue, sobj)
          ELSE IF r.err # "nil" THEN Return(o, r, out, r.err, NoValue, sobj)
          ELSE IF d.err # "nil" THEN Return(o, r, out, d.err, NoValue, d.sobj)
          ELSE Return(o, r, out, "nil", NoValue, d.sobj)

\* GetSObject, decoding into a copy of the record
GetSObjectIntoCopy(out) ==
    LET o == Call("GetSObject")
        url == makeURL(<<"sobjects/", Type(sobj), "/", ID(sobj)>>)
        r == request("GET", url, NilBody, NilHeaders, out)
        d == decodeSObject(sobj, r.res.Body)
    IN /\ pc = "idle"
       /\ IF Len(Type(sobj)) = 0 THEN Return(o, NotCalled, out, "ErrFailure", NoValue, sobj)
          ELSE IF Len(ID(sobj)) = 0 THEN Return(o, NotCalled, out, "ErrFailure", NoValue, sobj)
          ELSE IF r.err # "nil" THEN Return(o, r, out, r.err, NoValue, sobj)
          ELSE IF d.err # "nil" THEN Return(o, r, out, d.err, NoValue, d.sobj)
          ELSE Return(o, r, out, "nil", NoValue, sobj)

GetSObject(out) ==
    LET o == Call("GetSObject")
        url == makeURL(<<"sobjects/", Type(sobj), "/", ID(sobj)>>)
        r == request("GET", url, NilBody, NilHeaders, out)
        d == decodeSObject(sobj, r.res.Body)
    IN /\ pc = "idle"
       /\ IF Len(Type(sobj)) = 0 THEN Return(o, NotCalled, out, "ErrFailure", NoValue, sobj)
          ELSE IF Len(ID(sobj)) = 0 THEN Return(o, NotCalled, out, "ErrFailure", NoValue, sobj)
          ELSE IF r.err # "nil" THEN Return(o, r, out, r.err, NoValue, sobj)
          ELSE IF d.err # "nil" THEN Return(o, r, out, d.err, NoValue, d.sobj)
          ELSE Return(o, r, out, "nil", NoValue, d.sobj)

\* UpdateSObject, filtering the record itself
UpdateSObjectInPlace(blacklistedFields, autoAssign, out) ==
    LET o == [Call("UpdateSObject") EXCEPT !.blacklistedFields = blacklistedFields,
                                           !.autoAssign = autoAssign]
        reqObj == makeCopy(sobj, blacklistedFields)
        reqData == Marshal(reqObj)
        url == makeURL(<<"sobjects/", Type(sobj), "/", ID(sobj)>>)
        r == request("PATCH", url, BytesReader(reqData), ruleHeaders(FALSE, autoAssign), out)
    IN /\ pc = "idle"
       /\ IF Type(sobj) = "" THEN Return(o, NotCalled, out, "ErrFailure", NoValue, sobj)
          ELSE IF ID(sobj) = "" THEN Return(o, NotCalled, out, "ErrFailure", NoValue, sobj)
          ELSE IF r.err # "nil" THEN Return(o, r, out, r.err, NoValue, sobj)
          ELSE Return(o, r, out, "nil", NoValue,
                      [sobj EXCEPT !.fields = [k \in DOMAIN sobj.fields \ blacklistedFields |-> sobj.fields[k]]])

UpdateSObject(blacklistedFields, autoAssign, out) ==
    LET o == [Call("UpdateSObject") EXCEPT !.blacklistedFields = blacklistedFields,
                                           !.autoAssign = autoAssign]
        reqObj == makeCopy(sobj, blacklistedFields)
        reqData == Marshal(reqObj)
        url == makeURL(<<"sobjects/", Type(sobj), "/", ID(sobj)>>)
        r == request("PATCH", url, BytesReader(reqData), ruleHeaders(FALSE, autoAssign), out)
    IN /\ pc = "idle"
       /\ IF Type(sobj) = "" THEN Return(o, NotCalled, out, "ErrFailure", NoValue, sobj)
          ELSE IF ID(sobj) = "" THEN Return(o, NotCalled, out, "ErrFailure", NoValue, sobj)
          ELSE IF r.err # "nil" THEN Return(o, r, out, r.err, NoValue, sobj)
          ELSE Return(o, r, out, "nil", NoValue, sobj)

\* DeleteSObject, without the check of the id
DeleteSObjectNoIDCheck(out) ==
    LET o == Call("DeleteSObject")
        url == makeURL(<<"sobjects/", Type(sobj), "/", ID(sobj)>>)
        r == request("DELETE", url, NilBody, NilHeaders, out)
    IN /\ pc = "idle"
       /\ IF Len(Type(sobj)) = 0 THEN Return(o, NotCalled, out, "ErrFailure", NoValue, sobj)
          ELSE IF r.err # "nil" THEN Return(o, r, out, r.err, NoValue, sobj)
          ELSE Return(o, r, out, "nil", NoValue, sobj)

DeleteSObject(out) ==
    LET o == Call("DeleteSObject")
        url == makeURL(<<"sobjects/", Type(sobj), "/", ID(sobj)>>)
        r == request("DELETE", url, NilBody, NilHeaders, out)
    IN /\ pc = "idle"
       /\ IF Len(Type(sobj)) = 0 THEN Return(o, NotCalled, out, "ErrFailure", NoValue, sobj)
          ELSE IF Len(ID(sobj)) = 0 THEN Return(o, NotCalled, out, "ErrFailure", NoValue, sobj)
          ELSE IF r.err # "nil" THEN Return(o, r, out, r.err, NoValue, sobj)
          ELSE Return(o, r, out, "nil", NoValue, sobj)

DescribeHeaders ==
    Headers(HeaderSet(HeaderSet(NoHeaders, "Content-Type", "application/json; charset=UTF-8"),
                      "Accept", "application/json"))

\* createFails: os.Create cannot create the destination file
DownloadFile(contentVersionID, createFails, out) ==
    LET o == [Call("DownloadFile") EXCEPT !.contentVersionID = contentVersionID,
                                          !.createFails = createFails]
        path == <<"/services/data/">> \o h.apiVersion
                   \o <<"/sobjects/ContentVersion/">> \o contentVersionID \o <<"/VersionData">>
        url == h.baseURL \o path
        r == request("GET", url, NilBody, DescribeHeaders, out)
        copy == ReadAll(r.res.Body)
    IN /\ pc = "idle"
       /\ IF r.err # "nil" THEN Return(o, r, out, r.err, NoValue, sobj)
          ELSE IF createFails THEN Return(o, r, out, "create", NoValue, sobj)
          ELSE IF copy.err # "nil" THEN Return(o, r, out, copy.err, NoValue, sobj)
          ELSE Return(o, r, out, "nil", copy.bytes, sobj)

DescribeGlobal(out) ==
    LET o == Call("DescribeGlobal")
        path == <<"/services/data/">> \o h.apiVersion \o <<"/sobjects">>
        url == h.baseURL \o path
        r == request("GET", url, NilBody, DescribeHeaders, out)
        d == decodeSObjectMeta(r.res.Body)
    IN /\ pc = "idle"
       /\ IF r.err # "nil" THEN Return(o, r, out, r.err, NoValue, sobj)
          ELSE IF d.err # "nil" THEN Return(o, r, out, d.err, NoValue, sobj)
          ELSE Return(o, r, out, "nil", d.val, sobj)

Next ==
    \/ pc = "idle" /\ \E t \in TypeNames : CallerNew(t)
    \/ pc = "idle" /\ \E id \in IDs : CallerSetID(id)
    \/ pc = "idle" /\ \E key \in FieldNames : \E value \in FieldValues(key) : CallerSet(key, value)
    \/ Continue
    \/ pc = "idle" /\ \E query \in Queries, nextRecordsURL \in NextRecordsURLs :
          \E out \in OtherOutcomes : Query(query, nextRecordsURL, out)
    \/ pc = "idle" /\ \E out \in OtherOutcomes : DescribeSObject(out)
    \/ pc = "idle" /\ \E blacklistedFields \in Blacklists, allowDuplicates \in BOOLEAN, autoAssign \in AutoAssigns :
          \E out \in CreateOutcomes :
             CreateSObject(blacklistedFields, allowDuplicates, autoAssign, out)
    \/ pc = "idle" /\ \E out \in GetOutcomes : GetSObject(out)
    \/ pc = "idle" /\ \E blacklistedFields \in Blacklists, autoAssign \in AutoAssigns :
          \E out \in OtherOutcomes :
             UpdateSObject(blacklistedFields, autoAssign, out)
    \/ pc = "idle" /\ \E out \in OtherOutcomes : DeleteSObject(out)
    \/ pc = "idle" /\ \E contentVersionID \in ContentVersionIDs, createFails \in BOOLEAN :
          \E out \in OtherOutcomes :
             DownloadFile(contentVersionID, createFails, out)
    \/ pc = "idle" /\ \E out \in OtherOutcomes : DescribeGlobal(out)

(***************************************************************************)
(* The client of force.go, shared by several goroutines.  Its makeURL      *)
(* assigns a field of the client, so a call is modelled step by step: the  *)
(* steps of calls made by different goroutines interleave.                 *)
(*   fc     the fields of the client                                       *)
(*   fc0    the fields as NewHTTPClient returned them                      *)
(*   gpc    the step each goroutine stands at                              *)
(*   gtmp   the value a goroutine has computed and not yet used            *)
(*   gres   what the last call of each goroutine returned                  *)
(*   wrote  a field of the client has been assigned since construction     *)
(***************************************************************************)
Goroutines == {1, 2}

forceDefaultAPIVersion == <<"43.0">>

\* the version with and without the leading "v" makeURL removes
forceAPIVersions == {<<"43.0">>, <<"v", "43.0">>}

forceQueries == {<<"Id">>, <<"/services/data", "/v43.0/query/01g-2000">>}

forceRequests == {<<"sobjects/Case">>}

forceOutcomes ==
    {TransportError,
     Answer(200, ObjectBytes(EmptyObject), FALSE),
     Answer(200, InvalidBytes, FALSE),
     Answer(300, EmptyBytes, FALSE)}

\* a string read while it is being overwritten: the pointer of one value
\* with the length of the other
Torn == <<"torn">>

forceNewHTTPClient(url, apiVersion) ==
    [baseURL |-> IF url # <<>> /\ url[Len(url)] = "/" THEN url ELSE url \o <<"/">>,
     apiVersion |-> apiVersion,
     instanceURL |-> <<>>]

\* strings.Replace(s, old, "", -1)
Replace(s, old) == SelectSeq(s, LAMBDA t : t # old)

\* strings.TrimRight(s, "/")
RECURSIVE TrimRight(_)
TrimRight(s) ==
    IF s # <<>> /\ s[Len(s)] = "/" THEN TrimRight(SubSeq(s, 1, Len(s) - 1)) ELSE s

HasPrefix(s, prefix) == Len(s) >= Len(prefix) /\ SubSeq(s, 1, Len(prefix)) = prefix

\* the goroutines other than g that stand before the assignment of makeURL
\* with a value other than v
Storing(g, v) ==
    {o \in Goroutines \ {g} : gpc[o] = "makeURL:store" /\ gtmp[o].s # v}

\* what goroutine g may read from h.apiVersion: the value stored, or, when
\* another goroutine is assigning a different value at the same time (the
\* read and the assignment are not ordered), that value or a torn one
Load(g) ==
    {fc.apiVersion}
        \cup UNION {{gtmp[o].s, Torn} : o \in Storing(g, fc.apiVersion)}

\* what the assignment of goroutine g may leave in h.apiVersion: its value,
\* or a torn one when another goroutine assigns a different value at the
\* same time
Store(g) ==
    {gtmp[g].s} \cup {Torn : o \in Storing(g, gtmp[g].s)}

NoLocal == [s |-> <<>>, arg |-> <<>>]

NoResult == [op |-> "", url |-> <<>>, err |-> "nil", val |-> NoValue]

InitGoroutines(apiVersions) ==
    /\ \E url \in {<<"http://host">>, <<"http://host", "/">>}, apiVersion \in apiVersions :
          /\ fc = forceNewHTTPClient(url, apiVersion)
          /\ fc0 = forceNewHTTPClient(url, apiVersion)
    /\ gpc = [g \in Goroutines |-> "idle"]
    /\ gtmp = [g \in Goroutines |-> NoLocal]
    /\ gres = [g \in Goroutines |-> NoResult]
    /\ wrote = FALSE

\* goroutine g goes from step "from" to step "to" keeping local value t and
\* result r
Step(g, from, to, t, r) ==
    /\ gpc[g] = from
    /\ gpc' = [gpc EXCEPT ![g] = to]
    /\ gtmp' = [gtmp EXCEPT ![g] = t]
    /\ gres' = [gres EXCEPT ![g] = r]
    /\ UNCHANGED fc0
    /\ UNCHANGED clientVars

httpRequest(method, url, out) ==
    IF ~validURL(url) THEN [data |-> EmptyBytes, err |-> "url"]
    ELSE IF out.kind = "error" THEN [data |-> EmptyBytes, err |-> "transport"]
    ELSE IF out.status < 200 \/ out.status > 299
    THEN [data |-> EmptyBytes, err |-> parseSalesforceError(out.status, out.body)]
    ELSE [data |-> ReadAll(Stream(out.body, TRUE, out.readErr)).bytes,
          err |-> ReadAll(Stream(out.body, TRUE, out.readErr)).err]

\* makeURL, first half of its assignment: the right-hand side is computed
makeURLReplace(g, req) ==
    /\ \E v \in Load(g) :
          Step(g, "idle", "makeURL:store", [s |-> Replace(v, "v"), arg |-> req], NoResult)
    /\ UNCHANGED <<fc, wrote>>

\* makeURL, second half of its assignment: h.apiVersion is written
makeURLStore(g) ==
    /\ \E v \in Store(g) : fc' = [fc EXCEPT !.apiVersion = v]
    /\ wrote' = TRUE
    /\ Step(g, "makeURL:store", "makeURL:format", gtmp[g], NoResult)

\* makeURL, the URL is formatted from the fields and returned
makeURLFormat(g) ==
    /\ \E v \in Load(g) :
          Step(g, "makeURL:format", "idle", NoLocal,
               [NoResult EXCEPT !.op = "makeURL",
                                !.url = fc.instanceURL \o <<"/services/data/v">> \o v
                                           \o <<"/">> \o gtmp[g].arg])
    /\ UNCHANGED <<fc, wrote>>

\* SObject(typeName): a new record tied to the client
forceSObject(g, typeName) ==
    /\ Step(g, "idle", "idle", NoLocal,
            [NoResult EXCEPT !.op = "SObject", !.val = NewSObject(typeName)])
    /\ UNCHANGED <<fc, wrote>>

\* Query(q), the URL is formatted from the fields
forceQueryURL(g, q) ==
    /\ \E v \in Load(g) :
          Step(g, "idle", "Query:do",
               [s |-> IF HasPrefix(q, <<"/services/data">>)
                      THEN fc.instanceURL \o q
                      ELSE fc.instanceURL \o <<"/services/data/v">> \o v
                              \o <<"/query", "?", "q", "=">> \o PathEscape(q),
                arg |-> <<>>],
               NoResult)
    /\ UNCHANGED <<fc, wrote>>

\* Query(q), the round trip and the decoding of the answer
forceQueryDo(g, out) ==
    LET u == gtmp[g].s
        r == httpRequest("GET", u, out)
        d == decodeQueryResult(Stream(r.data, TRUE, FALSE))
        res == [NoResult EXCEPT !.op = "Query", !.url = u]
    IN /\ IF r.err # "nil" THEN Step(g, "Query:do", "idle", NoLocal, [res EXCEPT !.err = r.err])
          ELSE IF d.err # "nil" THEN Step(g, "Query:do", "idle", NoLocal, [res EXCEPT !.err = d.err])
          ELSE Step(g, "Query:do", "idle", NoLocal, [res EXCEPT !.val = d.val])
       /\ UNCHANGED <<fc, wrote>>

\* DownloadFile(contentVersionID, filepath), the URL is formatted
forceDownloadFileURL(g, contentVersionID) ==
    /\ \E v \in Load(g) :
          Step(g, "idle", "DownloadFile:do",
               [s |-> TrimRight(fc.baseURL) \o <<"/services/data/v">> \o v
                         \o <<"/sobjects/ContentVersion/">> \o contentVersionID
                         \o <<"/VersionData">>,
                arg |-> <<>>],
               NoResult)
    /\ UNCHANGED <<fc, wrote>>

\* DownloadFile, the round trip and the copy of the body to the file; the
\* status of the answer is not looked at
forceDownloadFileDo(g, createFails, out) ==
    LET u == gtmp[g].s
        copy == ReadAll(Stream(out.body, TRUE, out.readErr))
        res == [NoResult EXCEPT !.op = "DownloadFile", !.url = u]
    IN /\ IF ~validURL(u) THEN Step(g, "DownloadFile:do", "idle", NoLocal, [res EXCEPT !.err = "url"])
          ELSE IF out.kind = "error"
          THEN Step(g, "DownloadFile:do", "idle", NoLocal, [res EXCEPT !.err = "transport"])
          ELSE IF createFails
          THEN Step(g, "DownloadFile:do", "idle", NoLocal, [res EXCEPT !.err = "create"])
          ELSE Step(g, "DownloadFile:do", "idle", NoLocal,
                    [res EXCEPT !.err = copy.err, !.val = copy.bytes])
       /\ UNCHANGED <<fc, wrote>>

\* DescribeGlobal(), the URL is formatted
forceDescribeGlobalURL(g) ==
    /\ \E v \in Load(g) :
          Step(g, "idle", "DescribeGlobal:do",
               [s |-> TrimRight(fc.baseURL) \o <<"/services/data/v">> \o v \o <<"/sobjects">>,
                arg |-> <<>>],
               NoResult)
    /\ UNCHANGED <<fc, wrote>>

\* DescribeGlobal, the round trip and the decoding of the answer; the status
\* of the answer is not looked at
forceDescribeGlobalDo(g, out) ==
    LET u == gtmp[g].s
        respData == ReadAll(Stream(out.body, TRUE, out.readErr)).bytes
        d == decodeSObjectMeta(Stream(respData, TRUE, FALSE))
        res == [NoResult EXCEPT !.op = "DescribeGlobal", !.url = u]
    IN /\ IF ~validURL(u) THEN Step(g, "DescribeGlobal:do", "idle", NoLocal, [res EXCEPT !.err = "url"])
          ELSE IF out.kind = "error"
          THEN Step(g, "DescribeGlobal:do", "idle", NoLocal, [res EXCEPT !.err = "transport"])
          ELSE IF d.err # "nil"
          THEN Step(g, "DescribeGlobal:do", "idle", NoLocal, [res EXCEPT !.err = d.err])
          ELSE Step(g, "DescribeGlobal:do", "idle", NoLocal, [res EXCEPT !.val = d.val])
       /\ UNCHANGED <<fc, wrote>>

Init == InitClient /\ InitGoroutines({forceDefaultAPIVersion})

InitForce == InitClient /\ InitGoroutines(forceAPIVersions)

NextForce ==
    \/ \E g \in Goroutines, req \in forceRequests : makeURLReplace(g, req)
    \/ \E g \in Goroutines : makeURLStore(g)
    \/ \E g \in Goroutines : makeURLFormat(g)
    \/ \E g \in Goroutines, t \in TypeNames : forceSObject(g, t)
    \/ \E g \in Goroutines, q \in forceQueries : forceQueryURL(g, q)
    \/ \E g \in Goroutines, out \in forceOutcomes : forceQueryDo(g, out)
    \/ \E g \in Goroutines, id \in ContentVersionIDs : forceDownloadFileURL(g, id)
    \/ \E g \in Goroutines, c \in BOOLEAN, out \in forceOutcomes : forceDownloadFileDo(g, c, out)
    \/ \E g \in Goroutines : forceDescribeGlobalURL(g)
    \/ \E g \in Goroutines, out \in forceOutcomes : forceDescribeGlobalDo(g, out)

SpecForce == InitForce /\ [][NextForce]_vars

Spec == Init /\ [][Next]_vars

(***************************************************************************)
(* Properties.                                                             *)
(***************************************************************************)
Returned(names) == pc = "returned" /\ op.name \in names

Is2xx(status) == status >= 200 /\ status <= 299

\* C1: DescribeSObject, CreateSObject, GetSObject, UpdateSObject and
\* DeleteSObject called on a record whose type is empty, or (GetSObject,
\* UpdateSObject, DeleteSObject) whose id is empty, return the validation
\* error and hand no request to the transport.
C1_ValidationBeforeRequest ==
    (/\ Returned({"DescribeSObject", "CreateSObject", "GetSObject",
                  "UpdateSObject", "DeleteSObject"})
     /\ \/ Type(pre) = ""
        \/ op.name \in {"GetSObject", "UpdateSObject", "DeleteSObject"} /\ ID(pre) = "")
        => (ret.err = "ErrFailure" /\ wire = <<>> /\ ~rret.called)

C1_Witness ==
    /\ Returned({"DeleteSObject"})
    /\ Type(pre) = "Case"
    /\ ID(pre) = ""
    /\ ret.err = "ErrFailure"
    /\ wire = <<>>

\* the id a create response reports: the value of its "id" member, which
\* the decoder finds whatever the case of its letters
ReportedID(o) ==
    IF "id" \in DOMAIN o THEN o["id"].s
    ELSE IF "Id" \in DOMAIN o THEN o["Id"].s
    ELSE ""

ReportsSuccess(o) == "success" \in DOMAIN o /\ o["success"] = JTrue

CreateAnswered ==
    /\ Returned({"CreateSObject"})
    /\ net.kind = "response"
    /\ Is2xx(net.status)
    /\ ~net.readErr
    /\ net.body.kind = "object"

\* C2: CreateSObject, answered 2xx with an object that reports success=true
\* and a non-empty id X, sets the record's id to X and returns no error;
\* answered with success=false or an empty or missing id, it returns the
\* failure error and the record's id is what it was before the call.
C2_CreateSetsID ==
    CreateAnswered =>
        IF ReportsSuccess(net.body.obj) /\ ReportedID(net.body.obj) # ""
        THEN ret.err = "nil" /\ ID(sobj) = ReportedID(net.body.obj)
        ELSE ret.err = "ErrFailure" /\ ID(sobj) = ID(pre)

C2_Witness ==
    /\ CreateAnswered
    /\ ReportsSuccess(net.body.obj)
    /\ ID(pre) = "object1"
    /\ ID(sobj) = "X"
    /\ ret.err = "nil"

QueryEndpoint == <<"/services/data/">> \o h.apiVersion \o <<"/query">>

\* C3: Query with a non-empty continuation token sends a GET to base URL +
\* token, whose path is the token and which has no q parameter, whatever
\* the query string; with an empty token it sends a GET to the versioned
\* query endpoint whose q parameter decodes to the query string.
C3_QueryTarget ==
    Returned({"Query"}) =>
        /\ Len(wire) = 1
        /\ wire[1].method = "GET"
        /\ IF op.nextRecordsURL # <<>>
           THEN /\ wire[1].url = h.baseURL \o op.nextRecordsURL
                /\ URLPath(wire[1].url) = op.nextRecordsURL
                /\ ~QueryHas(wire[1].url, "q")
           ELSE /\ URLPath(wire[1].url) = QueryEndpoint
                /\ QueryGet(wire[1].url, "q") = op.query

Answered == pc = "returned" /\ net.kind = "response"

\* the bytes a returned response's body still yields to its reader
Yields(res) == ReadAll(res.Body)

\* C5 as stated: for every answer whose status is outside 200..299 request
\* returns a non-nil error and a response whose body yields the whole
\* original body; for a status in 200..299 it returns the response, a nil
\* error and the body unread.
C5_RequestResult ==
    Answered =>
        IF ~Is2xx(net.status)
        THEN /\ rret.err # "nil"
             /\ ~rret.res.isNil
             /\ Yields(rret.res) = [bytes |-> net.body, err |-> "nil"]
        ELSE /\ rret.err = "nil"
             /\ ~rret.res.isNil
             /\ rret.res.Body = Stream(net.body, TRUE, net.readErr)

\* C5, amended: for every answer whose status is outside 200..299 request
\* returns a non-nil error; with it a response whose body yields the whole
\* original body when that body could be read to its end, and no response
\* (the read error) when it could not.  For a status in 200..299 it returns
\* the response, a nil error and the body unread.
C5_RequestResultReadable ==
    Answered =>
        IF ~Is2xx(net.status)
        THEN /\ rret.err # "nil"
             /\ IF net.readErr
                THEN rret.res.isNil /\ rret.err = "read"
                ELSE /\ ~rret.res.isNil
                     /\ rret.res.StatusCode = net.status
                     /\ Yields(rret.res) = [bytes |-> net.body, err |-> "nil"]
        ELSE /\ rret.err = "nil"
             /\ ~rret.res.isNil
             /\ rret.res.StatusCode = net.status
             /\ rret.res.Body = Stream(net.body, TRUE, net.readErr)

C5_Witness ==
    /\ Answered
    /\ net.status = 300
    /\ net.body.kind = "object"
    /\ rret.err = "SalesforceError"
    /\ Yields(rret.res).bytes = net.body

DefaultHeaders == HeaderSet(NoHeaders, "Content-Type", "application/json")

GetSucceeded == Returned({"GetSObject"}) /\ ret.err = "nil"

\* C7: after a successful GetSObject on a record of type T and id I, the
\* record's type is T unless the response carries another type, and its id
\* is I unless the response carries another id.
C7_GetKeepsTypeAndID ==
    GetSucceeded =>
        LET o == net.body.obj
        IN /\ Type(pre) # "" /\ ID(pre) # ""
           /\ \/ Type(sobj) = Type(pre)
              \/ "attributes" \in DOMAIN o /\ o["attributes"].s # Type(pre)
           /\ \/ ID(sobj) = ID(pre)
              \/ "Id" \in DOMAIN o /\ o["Id"].s # ID(pre)

C7_Witness ==
    /\ GetSucceeded
    /\ DOMAIN net.body.obj = {"Foo"}
    /\ Type(sobj) = "Case"
    /\ ID(sobj) = "object1"

\* the user fields of a JSON object: its members but the type and id metadata
ResponseFields(o) == DOMAIN o \ {"attributes", "Id"}

\* C8: after a successful GetSObject the record's fields are exactly the
\* fields of the response, each with the response's value: a field the
\* record had before the call and the response lacks is gone.
C8_GetReplacesFields ==
    GetSucceeded =>
        /\ DOMAIN sobj.fields = ResponseFields(net.body.obj)
        /\ \A k \in DOMAIN sobj.fields : marshalValue(sobj.fields[k]) = net.body.obj[k]

C8_Witness ==
    /\ GetSucceeded
    /\ "IsClosed" \in DOMAIN pre.fields
    /\ "IsClosed" \notin ResponseFields(net.body.obj)
    /\ "IsClosed" \notin DOMAIN sobj.fields

\* C9: UpdateSObject leaves the caller's record as it was, whether it
\* succeeds or fails: same type, same id, same fields, the blacklisted ones
\* included.
C9_UpdateLeavesRecord ==
    Returned({"UpdateSObject"}) => sobj = pre

C9_Witness ==
    /\ Returned({"UpdateSObject"})
    /\ ret.err = "nil"
    /\ op.blacklistedFields = {"Foo"}
    /\ "Foo" \in DOMAIN pre.fields
    /\ "Foo" \notin DOMAIN wire[1].body.json
    /\ "Foo" \in DOMAIN sobj.fields

\* C10: the payload CreateSObject and UpdateSObject send has no key of the
\* exclusion set, and has every other key of the record, each with the
\* record's value.
C10_PayloadIsRedactedCopy ==
    (Returned({"CreateSObject", "UpdateSObject"}) /\ wire # <<>>) =>
        LET payload == wire[1].body.json
            source == Flat(pre)
        IN /\ ~wire[1].body.isNil
           /\ DOMAIN payload \cap op.blacklistedFields = {}
           /\ DOMAIN source \ op.blacklistedFields \subseteq DOMAIN payload
           /\ DOMAIN payload \subseteq DOMAIN source
           /\ \A k \in DOMAIN payload : unmarshalValue(payload[k]) = source[k]

C10_Witness ==
    /\ Returned({"CreateSObject"})
    /\ wire # <<>>
    /\ op.blacklistedFields = {"attributes", "Id"}
    /\ ID(pre) = "object1"
    /\ DOMAIN wire[1].body.json = {"Foo", "IsClosed"}

\* two calls are in progress at once, one of them a makeURL that has
\* assigned h.apiVersion: the assignment and the other call's read of the
\* field are not ordered
Racing ==
    \E g, o \in Goroutines : g # o /\ gpc[g] = "makeURL:format" /\ gpc[o] # "idle"

\* C11: no operation writes a field of the client after construction: the
\* base URL and the API version are at all times, after any sequence or
\* interleaving of calls on one client, what the constructor returned, and
\* calls made at the same time never race on a field of the client.
C11_ClientNeverWritten ==
    /\ h = NewHTTPClient(h.baseURL, h.apiVersion)
    /\ fc.baseURL = fc0.baseURL
    /\ fc.apiVersion = fc0.apiVersion
    /\ ~wrote
    /\ ~Racing

\* the operations that decode the body of a 2xx answer
Decoding == {"Query", "DescribeSObject", "CreateSObject", "GetSObject", "DescribeGlobal"}

\* C12: every call of an operation hands at most one request to the
\* transport, whatever its outcome: after a failed round trip, an answer
\* outside 2xx or a body that cannot be decoded, the operation returns that
\* error and no further request is sent.
C12_AtMostOneRequest ==
    pc = "returned" =>
        /\ Len(wire) <= 1
        /\ net.kind = "error" => ret.err = "transport"
        /\ (net.kind = "response" /\ ~Is2xx(net.status))
              => (ret.err # "nil" /\ ret.err = rret.err)
        /\ (/\ net.kind = "response"
            /\ Is2xx(net.status)
            /\ op.name \in Decoding
            /\ (net.readErr \/ net.body.kind \in {"empty", "invalid"}))
              => ret.err \in {"read", "decode"}

C12_Witness ==
    /\ Returned({"GetSObject"})
    /\ net.kind = "error"
    /\ Len(wire) = 1
    /\ ret.err = "transport"

\* C13: CreateSObject, answered 2xx with a body that does not decode to an
\* object with success=true and a non-empty id (the JSON literal null and
\* text that is not JSON included), returns an error value, never faults,
\* and leaves the record's id as it was.
C13_CreateNeverFaults ==
    (/\ Returned({"CreateSObject"})
     /\ net.kind = "response"
     /\ Is2xx(net.status)
     /\ ~(/\ ~net.readErr
          /\ net.body.kind = "object"
          /\ ReportsSuccess(net.body.obj)
          /\ ReportedID(net.body.obj) # ""))
        => (ret.err \notin {"nil", "panic"} /\ ID(sobj) = ID(pre))

====
